---- MODULE Spec2Model ----
(***************************************************************************)
(* matchcommits.py: find_closest_commits, the closest-commit search.       *)
(*                                                                         *)
(* A commit of the searched (first-parent) history is identified by its    *)
(* position in the chain: 1 is the commit the search starts from, c + 1 is *)
(* parents[0] of commit c.  history[c] is the committed_datetime of commit *)
(* c; the sequence grows by one entry for every parent the commit graph    *)
(* hands out, so Len(history) is the number of commits resolved so far.    *)
(* Timestamps are integers; only their order and differences are used.     *)
(* The ancestors of the reference commit (the `target_commit` argument)    *)
(* are not stored: the detection loop only compares each ancestor's        *)
(* timestamp once, when it is looked up.                                   *)
(***************************************************************************)
EXTENDS Integers, Sequences, FiniteSets, TLC

\* Timestamps range over 1..MaxTime.
MaxTime == 3

\* The searched history holds at most MaxLen commits: the MaxLen-th commit,
\* when the traversal gets there, is a root.
MaxLen == 6

\* `count = 200` of the out-of-order detection (line 125).
DetectSteps == 200

\* `count = 200` of the countdown (line 152), scaled down so that histories
\* longer than the countdown can be enumerated.
Countdown == 2

\* `None`, and the value of `raised` while no exception was raised.
None == 0

VARIABLES
    args,                     \* the parsed flags read by find_closest_commits
    target_commit_datetime,   \* committed_datetime of the reference commit
    target_ooo,               \* whether the reference commit is out-of-order
    count,                    \* the loop counter of either loop
    history,                  \* timestamps of the searched commits resolved so far
    stack,                    \* the candidate stack (commit positions)
    ooo_commits,              \* the anomaly list (commit positions)
    next_commit,              \* the commit looked up in this iteration
    result,                   \* the returned pair <<best, second or None>>
    pc,                       \* "detect", "lookup", "evict", "done", "error"
    raised                    \* source line of the uncaught IndexError, or None

vars == <<args, target_commit_datetime, target_ooo, count, history, stack,
          ooo_commits, next_commit, result, pc, raised>>

Times == 1..MaxTime

Flags == [search_out_of_order : BOOLEAN, always_after : BOOLEAN, always_before : BOOLEAN]

Range(s) == {s[i] : i \in 1..Len(s)}

Abs(x) == IF x < 0 THEN -x ELSE x

\* committed_datetime of a searched commit.
committed_datetime(c) == history[c]

----------------------------------------------------------------------------
(* Pure parts of find_closest_commits.                                     *)

\* The sort key of line 165 without the abs().
distance_signed(c) == committed_datetime(c) - target_commit_datetime

\* The sort key of line 165.
distance(c) == Abs(committed_datetime(c) - target_commit_datetime)

\* The eviction test, but against the most recently appended entry.
Inverted_last(s, c) == Len(s) > 0 /\ committed_datetime(c) > committed_datetime(s[Len(s)])

\* The condition of the inner while loop (line 146).
Inverted(s, c) == Len(s) > 0 /\ committed_datetime(c) > committed_datetime(s[1])

\* The first entry instead of the popped one.
Popped_first(s) == s[1]

\* The value of stack.pop() (line 149).
Popped(s) == s[Len(s)]

\* The list stack.pop() leaves behind (line 149).
AfterPop(s) == SubSeq(s, 1, Len(s) - 1)

\* The countdown restarted by every commit before the reference.
NextCount_restart(cnt, t) ==
    LET started == IF t < target_commit_datetime THEN Countdown ELSE cnt
        reset   == IF started > 0 /\ t > target_commit_datetime THEN -1 ELSE started
    IN  reset - 1

\* The counter after one iteration that looked up a commit of timestamp t
\* (lines 150-157).
NextCount(cnt, t) ==
    LET started == IF t < target_commit_datetime /\ cnt < 0 THEN Countdown ELSE cnt
        reset   == IF started > 0 /\ t > target_commit_datetime THEN -1 ELSE started
    IN  reset - 1

\* The anomalies replacing the candidates instead of joining them.
Merge_replace(s, ooo, include) == IF include THEN ooo ELSE s

\* Lines 159-160.
Merge(s, ooo, include) == IF include THEN s \o ooo ELSE s

IsAfter(c) == committed_datetime(c) >= target_commit_datetime

IsBefore(c) == committed_datetime(c) < target_commit_datetime

IsBeforeOrAt(c) == committed_datetime(c) <= target_commit_datetime

\* The always-before filter keeping commits at the reference time too.
Filter_inclusive(s) ==
    IF args.always_after THEN SelectSeq(s, IsAfter)
    ELSE IF args.always_before THEN SelectSeq(s, IsBeforeOrAt)
    ELSE s

\* Lines 161-164.
Filter(s) ==
    IF args.always_after THEN SelectSeq(s, IsAfter)
    ELSE IF args.always_before THEN SelectSeq(s, IsBefore)
    ELSE s

\* c inserted into a list sorted by distance, behind every entry whose key is
\* not greater: list.sort is stable.
RECURSIVE Insert(_, _)
Insert(sorted, c) ==
    IF sorted = <<>> THEN <<c>>
    ELSE IF distance(sorted[1]) <= distance(c)
         THEN <<sorted[1]>> \o Insert(Tail(sorted), c)
         ELSE <<c>> \o sorted

\* stack.sort(key=...) (line 165).
RECURSIVE Sort(_)
Sort(s) ==
    IF s = <<>> THEN <<>>
    ELSE Insert(Sort(SubSeq(s, 1, Len(s) - 1)), s[Len(s)])

\* Lines 159-165: the ranked list the result is read from.
Ranked(s, ooo, include) == Sort(Filter(Merge(s, ooo, include)))

----------------------------------------------------------------------------
(* The state machine.                                                      *)

Init ==
    /\ args \in Flags
    /\ target_commit_datetime \in Times
    /\ target_ooo = FALSE
    /\ count = DetectSteps
    /\ history = <<>>
    /\ stack = <<>>
    /\ ooo_commits = <<>>
    /\ next_commit = None
    /\ result = <<None, None>>
    /\ pc = "detect"
    /\ raised = None

\* One iteration of the detection loop (lines 127-132).
DetectParent ==
    /\ pc = "detect"
    /\ count # 0
    /\ ~target_ooo
    /\ \/ \* parents is empty: parents[0] raises IndexError
          /\ pc' = "error"
          /\ raised' = 129
          /\ count' = count - 1
          /\ UNCHANGED target_ooo
       \/ \* an ancestor later than the reference commit: break
          /\ \E t \in Times : t > target_commit_datetime
          /\ target_ooo' = TRUE
          /\ count' = count - 1
          /\ UNCHANGED <<pc, raised>>
       \/ \* an ancestor that is not later
          /\ \E t \in Times : t <= target_commit_datetime
          /\ count' = count - 1
          /\ UNCHANGED <<target_ooo, pc, raised>>
    /\ UNCHANGED <<args, target_commit_datetime, history, stack, ooo_commits,
                   next_commit, result>>

\* After the detection loop: the flag override and the initial stack
\* (lines 133-142).
StartBuild ==
    /\ pc = "detect"
    /\ count = 0 \/ target_ooo
    /\ target_ooo' = (target_ooo \/ args.search_out_of_order)
    /\ \E t \in Times : history' = <<t>>
    /\ stack' = <<1>>
    /\ ooo_commits' = <<>>
    /\ count' = -1
    /\ pc' = "lookup"
    /\ UNCHANGED <<args, target_commit_datetime, next_commit, result, raised>>

\* The head of the building loop and the parent lookup (lines 143-145).
Lookup ==
    /\ pc = "lookup"
    /\ count # 0
    /\ \/ \* stack[-1] is a root: parents[0] raises IndexError
          /\ pc' = "error"
          /\ raised' = 144
          /\ UNCHANGED <<history, next_commit>>
       \/ /\ Len(history) < MaxLen
          /\ \E t \in Times : history' = Append(history, t)
          /\ next_commit' = Len(history) + 1
          /\ pc' = "evict"
          /\ UNCHANGED raised
    /\ UNCHANGED <<args, target_commit_datetime, target_ooo, count, stack,
                   ooo_commits, result>>

\* One iteration of the inner loop (lines 146-149).
Evict ==
    /\ pc = "evict"
    /\ Inverted(stack, next_commit)
    /\ ooo_commits' = Append(ooo_commits, Popped(stack))
    /\ stack' = AfterPop(stack)
    /\ UNCHANGED <<args, target_commit_datetime, target_ooo, count, history,
                   next_commit, result, pc, raised>>

\* The rest of the iteration once the inner loop is over (lines 150-157).
AppendNext ==
    /\ pc = "evict"
    /\ ~Inverted(stack, next_commit)
    /\ count' = NextCount(count, committed_datetime(next_commit))
    /\ stack' = Append(stack, next_commit)
    /\ pc' = "lookup"
    /\ UNCHANGED <<args, target_commit_datetime, target_ooo, history,
                   ooo_commits, next_commit, result, raised>>

\* The loop has ended: merge, filter, sort and return (lines 159-167).
Select ==
    /\ pc = "lookup"
    /\ count = 0
    /\ stack' = Ranked(stack, ooo_commits, target_ooo)
    /\ \/ \* stack[0] of an empty list raises IndexError
          /\ Len(stack') = 0
          /\ pc' = "error"
          /\ raised' = 167
          /\ UNCHANGED result
       \/ /\ Len(stack') > 0
          /\ result' = <<stack'[1], IF Len(stack') > 1 THEN stack'[2] ELSE None>>
          /\ pc' = "done"
          /\ UNCHANGED raised
    /\ UNCHANGED <<args, target_commit_datetime, target_ooo, count, history,
                   ooo_commits, next_commit>>

Next ==
    \/ DetectParent
    \/ StartBuild
    \/ Lookup
    \/ Evict
    \/ AppendNext
    \/ Select

Spec == Init /\ [][Next]_vars

----------------------------------------------------------------------------
(* The vocabulary of the properties.                                       *)

\* Absolute timestamp distance of commit c to the reference timestamp.
Gap(c) ==
    IF committed_datetime(c) >= target_commit_datetime
    THEN committed_datetime(c) - target_commit_datetime
    ELSE target_commit_datetime - committed_datetime(c)

\* Every commit the traversal has resolved, the starting tip included.
Visited == 1..Len(history)

\* The visited commits that were not diverted to the anomaly list.
Retained == {c \in Visited : c \notin Range(ooo_commits)}

NoFilter == ~args.always_after /\ ~args.always_before

Returned == {result[1], result[2]} \ {None}

NoDuplicates(s) == \A i, j \in 1..Len(s) : s[i] = s[j] => i = j

\* Parent lookups made by the building loop, the one that raised included.
ParentLookups == (Len(history) - 1) + (IF raised = 144 THEN 1 ELSE 0)

\* The commits handed out by a parent lookup that are before the reference.
Crossings == {c \in 2..Len(history) : committed_datetime(c) < target_commit_datetime}

\* The first of them: the crossing point.  It is c - 1 lookups from the tip.
FirstCrossing == CHOOSE c \in Crossings : \A d \in Crossings : c <= d

NoneLaterAfter(c) ==
    \A d \in (c + 1)..Len(history) : committed_datetime(d) <= target_commit_datetime

\* The building loop has been left through its `while count` test.
TraversalEnded == pc = "done" \/ raised = 167

\* The search has ended, by a return or by an exception, after the searched
\* history was entered.  When line 144 raised, the last visited commit is the
\* root, so the visited commits are the whole chain.
SearchEnded == pc \in {"done", "error"} /\ history # <<>>

StrictlyDescending ==
    \A i \in 1..(Len(history) - 1) : committed_datetime(i) > committed_datetime(i + 1)

----------------------------------------------------------------------------
(* The properties.                                                         *)

\* C1 (as stated): with neither one-sided filter active, the returned best
\* commit is at least as close to the reference timestamp as every visited
\* commit, the tip included, whether or not the reference is out-of-order.
C1_BestNearestOfVisited ==
    (pc = "done" /\ NoFilter) => \A c \in Visited : Gap(result[1]) <= Gap(c)

\* C1 (amended): with neither filter active, best is nearest among all
\* visited commits when the anomalies are included (target_ooo), and nearest
\* among the visited commits that were not diverted to the anomaly list
\* otherwise.
C1_BestNearestOfConsidered ==
    (pc = "done" /\ NoFilter) =>
        /\ result[1] \in Visited
        /\ target_ooo => \A c \in Visited : Gap(result[1]) <= Gap(c)
        /\ ~target_ooo => /\ result[1] \in Retained
                          /\ \A c \in Retained : Gap(result[1]) <= Gap(c)

\* An in-order reference, and a diverted commit strictly closer than best.
C1_Witness ==
    /\ pc = "done"
    /\ NoFilter
    /\ ~target_ooo
    /\ \E c \in Range(ooo_commits) : Gap(c) < Gap(result[1])

\* C2: for a chain with strictly decreasing timestamps whose last commit has
\* the reference timestamp, the search returns that last commit as best.
C2_ChainReturnsLast ==
    (SearchEnded /\ StrictlyDescending
        /\ committed_datetime(Len(history)) = target_commit_datetime)
    => (pc = "done" /\ result[1] = Len(history))

\* C3: reaching the root of the searched history is never an error state:
\* the traversal stops there and the search goes on to selection.
C3_RootIsNotAnError == raised # 144

\* C4: the out-of-order detection does not raise when the root of the
\* reference history is reached before an inversion is found.
C4_DetectionDoesNotRaise == raised # 129

C6_FiltersHoldForAllFlags ==
    pc = "done" =>
        /\ args.always_after => \A c \in Returned : committed_datetime(c) >= target_commit_datetime
        /\ args.always_before => \A c \in Returned : committed_datetime(c) < target_commit_datetime

\* C6 (amended): always-after returns only commits at or after the
\* reference; always-before, when always-after is not set as well, returns
\* only commits strictly before it.
C6_FiltersHoldWithPrecedence ==
    pc = "done" =>
        /\ Returned \subseteq Visited
        /\ args.always_after => \A c \in Returned : committed_datetime(c) >= target_commit_datetime
        /\ (args.always_before /\ ~args.always_after)
              => \A c \in Returned : committed_datetime(c) < target_commit_datetime

\* Two commits returned under always-before although a visited commit is not
\* before the reference.
C6_Witness ==
    /\ pc = "done"
    /\ args.always_before
    /\ ~args.always_after
    /\ result[2] # None
    /\ \E c \in Visited : committed_datetime(c) >= target_commit_datetime

\* C7: while the candidates are built, no commit is in both the stack and
\* the anomaly list, and none occurs twice in either.
C7_StackAndAnomaliesDisjoint ==
    pc \in {"lookup", "evict"} =>
        /\ Range(stack) \cap Range(ooo_commits) = {}
        /\ NoDuplicates(stack)
        /\ NoDuplicates(ooo_commits)

\* Several commits evicted, several still stacked.
C7_Witness ==
    /\ pc = "lookup"
    /\ Len(ooo_commits) >= 2
    /\ Len(stack) >= 2

\* C8: for the same traversal, the best commit selected with the anomalies
\* included is never farther from the reference than the one selected
\* without them, and it is strictly closer when an anomaly passing the
\* filter is strictly closer than every candidate passing it.
C8_AnomaliesNeverWorse ==
    [][(pc = "lookup" /\ pc' = "done") =>
        LET with     == IF target_ooo THEN stack' ELSE Ranked(stack, ooo_commits, TRUE)
            without  == IF target_ooo THEN Ranked(stack, ooo_commits, FALSE) ELSE stack'
            passing  == Range(Filter(ooo_commits))
        IN  without # <<>> =>
              /\ with # <<>>
              /\ Gap(with[1]) <= Gap(without[1])
              /\ (\E a \in passing : \A c \in Range(without) : Gap(a) < Gap(c))
                    => Gap(with[1]) < Gap(without[1])
    ]_vars

\* A search that included the anomalies and returned one of them because it
\* is strictly closer than every retained candidate.
C8_Witness ==
    /\ pc = "done"
    /\ target_ooo
    /\ result[1] \in Range(ooo_commits)
    /\ \E c \in Retained : c \in Range(stack)
    /\ \A c \in Retained : Gap(result[1]) < Gap(c)

\* C9: after every iteration the stack, read from its first entry to its
\* last, is non-increasing in timestamp.
C9_StackNonIncreasing ==
    pc = "lookup" =>
        \A i \in 1..(Len(stack) - 1) :
            committed_datetime(stack[i]) >= committed_datetime(stack[i + 1])

\* C10: an eviction never stops part-way.  Inside an iteration, a stack that
\* lost an entry and still has one is evicted further; after every
\* iteration the stack is the run of the most recently visited commits, all
\* earlier commits are anomalies, the stack is non-empty and its first entry
\* has the maximum timestamp of the stack.
C10_EvictionIsTotal ==
    /\ (pc = "evict" /\ stack # <<>> /\ stack[Len(stack)] # next_commit - 1)
          => committed_datetime(next_commit) > committed_datetime(stack[1])
    /\ pc = "lookup" =>
          /\ stack # <<>>
          /\ \A i \in 1..Len(stack) : stack[i] = stack[1] + i - 1
          /\ stack[Len(stack)] = Len(history)
          /\ Range(ooo_commits) = 1..(stack[1] - 1)
          /\ \A i \in 1..Len(stack) :
                committed_datetime(stack[i]) <= committed_datetime(stack[1])

\* An eviction of a stack of three, leaving the new commit alone.
C10_Witness ==
    /\ pc = "lookup"
    /\ stack = <<4>>
    /\ Len(ooo_commits) = 3

====
